---- MODULE Spec2Model ----
(***************************************************************************)
(* Model of app.py: the module-level AzureAIAgent object (azure_agent),    *)
(* the per-session store cl.user_session, and the three handlers           *)
(* on_chat_start (start), on_message (main) and on_chat_end (end).         *)
(* A handler is cut into steps at the points where its coroutine really    *)
(* suspends (the cl.Message sends, the cl.Step entry, asyncio.sleep);      *)
(* everything between two suspension points is one atomic action.          *)
(* The remote service (credentials, agent transport) is the environment:   *)
(* every call to it either raises or returns a value drawn from a small    *)
(* set.                                                                    *)
(***************************************************************************)
EXTENDS Integers, Sequences, FiniteSets, TLC

\* ---------------------------------------------------------------- bounds
\* sessions of the multi-session specification
NumSessions == 2
\* longest message list the transport returns in ListSpec
MaxMsgs == 2
\* longest message list the transport returns in Spec and SessSpec
PollMsgs == 1
\* creation times are 1..MaxTime
MaxTime == 3
\* in ListSpec and SessSpec a run leaves the awaited statuses within Settle fetches
Settle == 2
\* in Spec the user message is created at time SentAt (the listed messages' times
\* still range over 1..MaxTime: before, at and after it)
SentAt == 2

\* ------------------------------------------------------ program constants
\* max_wait_time = 60 (send_message)
max_wait_time == 60
\* Python's None for the object references client, agent, thread, thread_id
None == 0

AllSessions == 1..NumSessions
Times == 1..MaxTime

\* ------------------------------------------------------------ reply texts
TakingLonger == <<"I'm taking longer than expected to respond. Please try again.">>
NoResponse == <<"I received your message but didn't generate a response.">>
RestartNotice == <<"Please restart the chat to reinitialize the Azure AI connection.">>
AgentNotFound == <<"Azure AI agent not found. Please restart the chat.">>
NoReply == << >>

\* f"I encountered an error processing your request: {error_msg}"
RunFailedText(error_msg) == <<"I encountered an error processing your request: ", error_msg>>

\* f"I'm currently {run.status}. Please try again in a moment."
CurrentlyText(status) == <<"I'm currently ", status, ". Please try again in a moment.">>

\* f"I encountered an error: {str(e)}"
ErrorText(e) == <<"I encountered an error: ", e>>

\* the characters of the strings the program formats into its replies
Chars(s) ==
    CASE s = "" ->
           <<>>
      [] s = "I'm taking longer than expected to respond. Please try again." ->
           <<"I", "'", "m", " ", "t", "a", "k", "i", "n", "g", " ", "l", "o", "n", "g", "e", "r", " ", "t", "h", "a", "n", " ", "e", "x", "p", "e", "c", "t", "e", "d", " ", "t", "o", " ", "r", "e", "s", "p", "o", "n", "d", ".", " ", "P", "l", "e", "a", "s", "e", " ", "t", "r", "y", " ", "a", "g", "a", "i", "n", ".">>
      [] s = "I received your message but didn't generate a response." ->
           <<"I", " ", "r", "e", "c", "e", "i", "v", "e", "d", " ", "y", "o", "u", "r", " ", "m", "e", "s", "s", "a", "g", "e", " ", "b", "u", "t", " ", "d", "i", "d", "n", "'", "t", " ", "g", "e", "n", "e", "r", "a", "t", "e", " ", "a", " ", "r", "e", "s", "p", "o", "n", "s", "e", ".">>
      [] s = "Please restart the chat to reinitialize the Azure AI connection." ->
           <<"P", "l", "e", "a", "s", "e", " ", "r", "e", "s", "t", "a", "r", "t", " ", "t", "h", "e", " ", "c", "h", "a", "t", " ", "t", "o", " ", "r", "e", "i", "n", "i", "t", "i", "a", "l", "i", "z", "e", " ", "t", "h", "e", " ", "A", "z", "u", "r", "e", " ", "A", "I", " ", "c", "o", "n", "n", "e", "c", "t", "i", "o", "n", ".">>
      [] s = "Azure AI agent not found. Please restart the chat." ->
           <<"A", "z", "u", "r", "e", " ", "A", "I", " ", "a", "g", "e", "n", "t", " ", "n", "o", "t", " ", "f", "o", "u", "n", "d", ".", " ", "P", "l", "e", "a", "s", "e", " ", "r", "e", "s", "t", "a", "r", "t", " ", "t", "h", "e", " ", "c", "h", "a", "t", ".">>
      [] s = "I encountered an error processing your request: " ->
           <<"I", " ", "e", "n", "c", "o", "u", "n", "t", "e", "r", "e", "d", " ", "a", "n", " ", "e", "r", "r", "o", "r", " ", "p", "r", "o", "c", "e", "s", "s", "i", "n", "g", " ", "y", "o", "u", "r", " ", "r", "e", "q", "u", "e", "s", "t", ":", " ">>
      [] s = "I'm currently " ->
           <<"I", "'", "m", " ", "c", "u", "r", "r", "e", "n", "t", "l", "y", " ">>
      [] s = ". Please try again in a moment." ->
           <<".", " ", "P", "l", "e", "a", "s", "e", " ", "t", "r", "y", " ", "a", "g", "a", "i", "n", " ", "i", "n", " ", "a", " ", "m", "o", "m", "e", "n", "t", ".">>
      [] s = "I encountered an error: " ->
           <<"I", " ", "e", "n", "c", "o", "u", "n", "t", "e", "r", "e", "d", " ", "a", "n", " ", "e", "r", "r", "o", "r", ":", " ">>
      [] s = "I encountered an error" ->
           <<"I", " ", "e", "n", "c", "o", "u", "n", "t", "e", "r", "e", "d", " ", "a", "n", " ", "e", "r", "r", "o", "r">>
      [] s = "queued" ->
           <<"q", "u", "e", "u", "e", "d">>
      [] s = "in_progress" ->
           <<"i", "n", "_", "p", "r", "o", "g", "r", "e", "s", "s">>
      [] s = "requires_action" ->
           <<"r", "e", "q", "u", "i", "r", "e", "s", "_", "a", "c", "t", "i", "o", "n">>
      [] s = "completed" ->
           <<"c", "o", "m", "p", "l", "e", "t", "e", "d">>
      [] s = "failed" ->
           <<"f", "a", "i", "l", "e", "d">>
      [] s = "cancelled" ->
           <<"c", "a", "n", "c", "e", "l", "l", "e", "d">>
      [] s = "quota exceeded" ->
           <<"q", "u", "o", "t", "a", " ", "e", "x", "c", "e", "e", "d", "e", "d">>
      [] s = "None" ->
           <<"N", "o", "n", "e">>
      [] s = "Unknown error" ->
           <<"U", "n", "k", "n", "o", "w", "n", " ", "e", "r", "r", "o", "r">>
      [] s = "list_messages failed" ->
           <<"l", "i", "s", "t", "_", "m", "e", "s", "s", "a", "g", "e", "s", " ", "f", "a", "i", "l", "e", "d">>
      [] s = "list index out of range" ->
           <<"l", "i", "s", "t", " ", "i", "n", "d", "e", "x", " ", "o", "u", "t", " ", "o", "f", " ", "r", "a", "n", "g", "e">>
      [] s = "'NoneType' object has no attribute 'get'" ->
           <<"'", "N", "o", "n", "e", "T", "y", "p", "e", "'", " ", "o", "b", "j", "e", "c", "t", " ", "h", "a", "s", " ", "n", "o", " ", "a", "t", "t", "r", "i", "b", "u", "t", "e", " ", "'", "g", "e", "t", "'">>
      [] s = "'NoneType' object has no attribute 'id'" ->
           <<"'", "N", "o", "n", "e", "T", "y", "p", "e", "'", " ", "o", "b", "j", "e", "c", "t", " ", "h", "a", "s", " ", "n", "o", " ", "a", "t", "t", "r", "i", "b", "u", "t", "e", " ", "'", "i", "d", "'">>
      [] s = "'NoneType' object has no attribute 'agents'" ->
           <<"'", "N", "o", "n", "e", "T", "y", "p", "e", "'", " ", "o", "b", "j", "e", "c", "t", " ", "h", "a", "s", " ", "n", "o", " ", "a", "t", "t", "r", "i", "b", "u", "t", "e", " ", "'", "a", "g", "e", "n", "t", "s", "'">>
      [] s = "create_message failed" ->
           <<"c", "r", "e", "a", "t", "e", "_", "m", "e", "s", "s", "a", "g", "e", " ", "f", "a", "i", "l", "e", "d">>
      [] s = "create_run failed" ->
           <<"c", "r", "e", "a", "t", "e", "_", "r", "u", "n", " ", "f", "a", "i", "l", "e", "d">>
      [] s = "get_run failed" ->
           <<"g", "e", "t", "_", "r", "u", "n", " ", "f", "a", "i", "l", "e", "d">>
      [] s = "timed out" ->
           <<"t", "i", "m", "e", "d", " ", "o", "u", "t">>
      [] s = "alpha" ->
           <<"a", "l", "p", "h", "a">>
      [] s = "beta" ->
           <<"b", "e", "t", "a">>

\* the characters of a text: its parts one after the other
RECURSIVE TextChars(_)
TextChars(text) ==
    IF Len(text) = 0 THEN << >> ELSE Chars(Head(text)) \o TextChars(Tail(text))

\* piece in text (Python's substring test); piece is a sequence of characters
Contains(text, piece) ==
    LET hay == TextChars(text) IN
    \E i \in 0..(Len(hay) - Len(piece)) : SubSeq(hay, i + 1, i + Len(piece)) = piece

\* ------------------------------------------------- outcomes of a code block
\* a block either returns a value or raises an exception with a text
Return(v) == [kind |-> "return", val |-> v]
Raise(e) == [kind |-> "raise", val |-> <<e>>]

\* ------------------------------------------------------------ run objects
Statuses == {"queued", "in_progress", "requires_action", "completed", "failed", "cancelled"}

\* the value Python's None takes inside a dict, and its str()
PyNone == "<None>"
Str(v) == IF v = PyNone THEN "None" ELSE v

\* run.last_error: the attribute is absent, is None, or is a dict (a set of
\* key/value pairs)
NoError == [tag |-> "none", items |-> {}]
LastErrors ==
    { [tag |-> "absent", items |-> {}],
      NoError,
      [tag |-> "dict", items |-> {}],
      [tag |-> "dict", items |-> {<<"code", "server_error">>}],
      [tag |-> "dict", items |-> {<<"code", "rate_limit">>, <<"message", "quota exceeded">>}],
      [tag |-> "dict", items |-> {<<"message", PyNone>>}] }

\* the runs the service reports: only a failed run carries error details
Runs ==
    { [status |-> st, last_error |-> NoError] : st \in Statuses \ {"failed"} }
    \cup { [status |-> "failed", last_error |-> le] : le \in LastErrors }

NoRun == [status |-> "none", last_error |-> NoError]

\* dict.get(key, default)
DictGet(items, key, default) ==
    IF \E p \in items : p[1] = key
    THEN (CHOOSE p \in items : p[1] = key)[2]
    ELSE default

\* ---------------------------------------------------------- message lists
Contents == { << >>, <<"alpha">>, <<"beta">> }
Msgs == [role : {"user", "assistant"}, created_at : Times, content : Contents]
SeqsUpTo(S, n) == UNION { [1..k -> S] : k \in 0..n }

\* what list_messages yields: an exception, or a list in the transport's order
Listings(n) ==
    { [ok |-> FALSE, data |-> << >>] }
    \cup { [ok |-> TRUE, data |-> d] : d \in SeqsUpTo(Msgs, n) }
NoListing == [ok |-> FALSE, data |-> << >>]

\* ------------------------------------------------------- send_message body
\* while run.status in ["queued", "in_progress"] ...
AwaitedSpecVariant == {"queued", "in_progress", "requires_action"}
Awaited == {"queued", "in_progress"}

\* ... and wait_time < max_wait_time
LoopConditionOffByOne(status, wt) == status \in Awaited /\ wt <= max_wait_time
LoopCondition(status, wt) == status \in Awaited /\ wt < max_wait_time

\* for msg in messages.data: if role == "assistant" and created_at > ...: index of
\* the first such message in list order, 0 when the loop ends without one
RECURSIVE FirstMatch(_, _, _)
FirstMatch(data, after, i) ==
    IF i > Len(data) THEN 0
    ELSE IF data[i].role = "assistant" /\ data[i].created_at > after THEN i
    ELSE FirstMatch(data, after, i + 1)

\* the completed branch: list the messages, return the first match's text
CompletedReply(listing, created_at) ==
    IF ~listing.ok THEN Raise("list_messages failed")
    ELSE LET i == FirstMatch(listing.data, created_at, 1) IN
         IF i = 0 THEN Return(NoResponse)
         ELSE IF Len(listing.data[i].content) = 0 THEN Raise("list index out of range")
         ELSE Return(<<listing.data[i].content[1]>>)

\* the failed branch: getattr(run, 'last_error', {}).get('message', 'Unknown error')
FailedReply(last_error) ==
    IF last_error.tag = "none"
    THEN Raise("'NoneType' object has no attribute 'get'")
    ELSE Return(RunFailedText(Str(DictGet(last_error.items, "message", "Unknown error"))))

\* the if/elif chain after the loop
RunReplyNoTimeoutBranch(r, wt, listing, created_at) ==
    IF r.status = "completed" THEN CompletedReply(listing, created_at)
    ELSE IF r.status = "failed" THEN FailedReply(r.last_error)
    ELSE Return(CurrentlyText(r.status))
RunReplyTimeoutRaises(r, wt, listing, created_at) ==
    IF r.status = "completed" THEN CompletedReply(listing, created_at)
    ELSE IF r.status = "failed" THEN FailedReply(r.last_error)
    ELSE IF wt >= max_wait_time THEN Raise("timed out")
    ELSE Return(CurrentlyText(r.status))
RunReply(r, wt, listing, created_at) ==
    IF r.status = "completed" THEN CompletedReply(listing, created_at)
    ELSE IF r.status = "failed" THEN FailedReply(r.last_error)
    ELSE IF wt >= max_wait_time THEN Return(TakingLonger)
    ELSE Return(CurrentlyText(r.status))

\* try: ... except Exception as e: return f"I encountered an error: {str(e)}"
ExceptPropagates(o) == o
Except(o) == IF o.kind = "raise" THEN Return(ErrorText(o.val[1])) ELSE o


\* --------------------------------------------------------- configuration
\* PROJECT_CONNECTION_STRING / the three AZURE_* variables / AGENT_ID, read once
\* from the process environment when the module is imported
Configs == [mode : {"connection_string", "parameters", "missing"}, agent_id : BOOLEAN]

\* the agent that AGENT_ID names
AGENT_ID == 2
AgentLists == { << >>, <<1>>, <<2>>, <<1, 2>>, <<2, 1>> }

\* what the credential and transport calls of one initialize() do: which
\* credential yields a token, whether the first / the alternative client
\* construction succeeds, whether list_agents and get_agent succeed, and the
\* agents listed
InitOutcomes ==
    [cred : {"managed", "default", "none"}, primary : BOOLEAN, alt : BOOLEAN,
     list : BOOLEAN, data : AgentLists, get : BOOLEAN]

\* AzureAIAgent.initialize: the new client and agent fields, the return value
\* and the agent_id it stores in the session (None when it stores none).
\* c, a: self.client, self.agent before the call; n: clients constructed so far
initialize(o, cf, c, a, n) ==
    LET raised == [ok |-> FALSE, client |-> c, agent |-> a, clients |-> n, agent_id |-> None]
        built == \/ cf.mode = "connection_string" /\ (o.primary \/ o.alt)
                 \/ cf.mode = "parameters" /\ o.primary
        connected == [raised EXCEPT !.client = n + 1, !.clients = n + 1]
    IN  IF o.cred = "none" THEN raised
        ELSE IF ~built THEN raised
        ELSE IF ~o.list THEN connected
        ELSE IF cf.agent_id
             THEN IF o.get THEN [connected EXCEPT !.ok = TRUE, !.agent = AGENT_ID]
                  ELSE connected
        ELSE IF Len(o.data) > 0
             THEN [connected EXCEPT !.ok = TRUE, !.agent = o.data[1], !.agent_id = o.data[1]]
        ELSE connected

\* AzureAIAgent.create_thread: the new self.thread and the value returned.
\* c, t: self.client, self.thread before the call; n: threads created so far
create_thread(ok, c, t, n) ==
    IF c # None /\ ok
    THEN [thread |-> n + 1, threads |-> n + 1, ret |-> n + 1]
    ELSE [thread |-> t, threads |-> n, ret |-> None]

\* ------------------------------------------------------------------ state
VARIABLES
    client, agent, thread,   \* the fields of the module-level azure_agent
    clients, threads,        \* remote side: clients constructed, threads created
    user_session,            \* cl.user_session of every chat session
    pc,                      \* where each flow of control (handler task) stands
    init_result,             \* start(): init_result
    run, wait_time,          \* send_message(): run, wait_time
    message_obj,             \* send_message(): message_obj.created_at (None: unset)
    messages,                \* send_message(): what list_messages yielded
    response,                \* main(): response, what send_message returned
    reply,                   \* the content of the message main() sent for the
                             \* flow's latest user message (empty: none yet)
    calls,                   \* what the transport saw of the session's last call
    cfg,                     \* the process configuration
    env                      \* the behaviours of the remote service explored

vars == <<client, agent, thread, clients, threads, user_session, pc, init_result,
          run, wait_time, message_obj, messages, response, reply, calls, cfg, env>>

agent_vars == <<client, agent, thread, clients, threads>>
frame_vars == <<run, wait_time, message_obj, messages, response, calls>>

NoSession == [initialized |-> "unset", azure_agent |-> FALSE, thread_id |-> None, agent_id |-> None]
NoCalls == [create_run |-> 0, get_run |-> 0, sleep |-> 0, msg_thread |-> None,
            run_thread |-> None, raised |-> ""]

\* the statuses the remote service counts as unfinished
Pending == {"queued", "in_progress"}

\* the runs the k-th status fetch may report
FetchRuns(k) ==
    IF k >= env.settle THEN {r \in env.runs : r.status \notin Pending} ELSE env.runs

InitWith(e) ==
    /\ client = None /\ agent = None /\ thread = None
    /\ clients = 0 /\ threads = 0
    /\ user_session = [s \in AllSessions |-> NoSession]
    /\ pc = [s \in AllSessions |-> "new"]
    /\ init_result = [s \in AllSessions |-> FALSE]
    /\ run = [s \in AllSessions |-> NoRun]
    /\ wait_time = [s \in AllSessions |-> 0]
    /\ message_obj = [s \in AllSessions |-> None]
    /\ messages = [s \in AllSessions |-> NoListing]
    /\ response = [s \in AllSessions |-> NoReply]
    /\ reply = [s \in AllSessions |-> NoReply]
    /\ calls = [s \in AllSessions |-> NoCalls]
    /\ cfg \in e.configs
    /\ env = e

\* ---------------------------------------------------------------- actions
\* every index of pc is one flow of control: the handlers chainlit runs one
\* after the other for a chat session.  env.owner[s] is the chat session whose
\* cl.user_session flow s sees; a session's own flow runs its start() and
\* end(), a further flow of the same session carries the messages that arrive
\* while a handler of the session is suspended
Session(s) == user_session[env.owner[s]]

\* start(), lines 330-345: the greeting, azure_agent.initialize(), the debug
\* message
start_initialize(s) ==
    /\ pc[s] = "new" /\ env.owner[s] = s
    /\ \E o \in InitOutcomes :
        LET r == initialize(o, cfg, client, agent, clients) IN
        /\ client' = r.client
        /\ agent' = r.agent
        /\ clients' = r.clients
        /\ init_result' = [init_result EXCEPT ![s] = r.ok]
        /\ user_session' = IF r.agent_id # None
                           THEN [user_session EXCEPT ![s].agent_id = r.agent_id]
                           ELSE user_session
    /\ pc' = [pc EXCEPT ![s] = "starting"]
    /\ UNCHANGED <<thread, threads, reply, cfg, env>>
    /\ UNCHANGED frame_vars

\* start(), lines 347-391: store the agent and the flag, create the thread
start_finish(s) ==
    /\ pc[s] = "starting"
    /\ IF init_result[s]
       THEN \E ok \in BOOLEAN :
            LET ct == create_thread(ok, client, thread, threads) IN
            /\ thread' = ct.thread
            /\ threads' = ct.threads
            /\ user_session' =
                 [user_session EXCEPT ![s].azure_agent = TRUE,
                                      ![s].initialized = "True",
                                      ![s].thread_id = IF ct.ret # None THEN ct.ret ELSE @]
       ELSE /\ user_session' = [user_session EXCEPT ![s].initialized = "False"]
            /\ UNCHANGED <<thread, threads>>
    /\ pc' = [pc EXCEPT ![s] = "ready"]
    /\ UNCHANGED <<client, agent, clients, init_result, reply, cfg, env>>
    /\ UNCHANGED frame_vars

\* main(), lines 411-416: the cl.Step is entered and a new send_message frame
\* begins (the previous call's locals are gone; this invocation of main() has
\* sent no message yet)
begin_call(s) ==
    /\ pc' = [pc EXCEPT ![s] = "entered"]
    /\ run' = [run EXCEPT ![s] = NoRun]
    /\ wait_time' = [wait_time EXCEPT ![s] = 0]
    /\ message_obj' = [message_obj EXCEPT ![s] = None]
    /\ messages' = [messages EXCEPT ![s] = NoListing]
    /\ response' = [response EXCEPT ![s] = NoReply]
    /\ calls' = [calls EXCEPT ![s] = NoCalls]
    /\ reply' = [reply EXCEPT ![s] = NoReply]

\* main() without its two session checks
mainUnchecked(s) ==
    /\ pc[s] \in {"new", "starting", "ready"}
    /\ begin_call(s)
    /\ UNCHANGED <<init_result, user_session, cfg, env>>
    /\ UNCHANGED agent_vars

\* main(), lines 394-413: the two session checks, then the call begins
main(s) ==
    /\ pc[s] \in {"new", "starting", "ready"}
    /\ IF Session(s).initialized # "True"
       THEN /\ reply' = [reply EXCEPT ![s] = RestartNotice]
            /\ UNCHANGED <<pc, frame_vars>>
       ELSE IF ~Session(s).azure_agent
       THEN /\ reply' = [reply EXCEPT ![s] = AgentNotFound]
            /\ UNCHANGED <<pc, frame_vars>>
       ELSE begin_call(s)
    /\ UNCHANGED <<init_result, user_session, cfg, env>>
    /\ UNCHANGED agent_vars

\* send_message returns (or raises) o after its last transport call: main()
\* holds the returned text in response and suspends where the cl.Step exits
Returns(s, raw, r, wt, at, ls, cs) ==
    LET o == Except(raw) IN
    /\ run' = [run EXCEPT ![s] = r]
    /\ wait_time' = [wait_time EXCEPT ![s] = wt]
    /\ message_obj' = [message_obj EXCEPT ![s] = at]
    /\ messages' = [messages EXCEPT ![s] = ls]
    /\ calls' = [calls EXCEPT ![s] =
                   [cs EXCEPT !.raised = IF raw.kind = "raise" THEN raw.val[1] ELSE ""]]
    /\ reply' = reply
    /\ IF o.kind = "raise"
       THEN pc' = [pc EXCEPT ![s] = "crashed"] /\ response' = response
       ELSE pc' = [pc EXCEPT ![s] = "returned"] /\ response' = [response EXCEPT ![s] = o.val]

\* send_message suspends in asyncio.sleep(1)
Sleeps(s, r, wt, at, cs) ==
    /\ run' = [run EXCEPT ![s] = r]
    /\ wait_time' = [wait_time EXCEPT ![s] = wt]
    /\ message_obj' = [message_obj EXCEPT ![s] = at]
    /\ messages' = [messages EXCEPT ![s] = NoListing]
    /\ calls' = [calls EXCEPT ![s] = cs]
    /\ pc' = [pc EXCEPT ![s] = "sleeping"]
    /\ UNCHANGED <<response, reply>>

\* after a status is in hand: loop again, or leave the loop and answer
Continue(s, r, wt, at, cs) ==
    IF LoopCondition(r.status, wt)
    THEN Sleeps(s, r, wt, at, [cs EXCEPT !.sleep = @ + 1])
    ELSE \E ls \in (IF r.status = "completed" THEN Listings(env.lists) ELSE {NoListing}) :
            Returns(s, RunReply(r, wt, ls, at), r, wt, at, ls, cs)

\* send_message, lines 267-290: the thread if there is none, the user message,
\* the run, the first loop test.  self.client.agents is evaluated before
\* self.thread.id, and self.agent.id only once the message is appended
send_message(s) ==
    /\ pc[s] = "entered"
    /\ \E okT \in (IF thread = None THEN BOOLEAN ELSE {TRUE}) :
        LET ct == IF thread = None
                  THEN create_thread(okT, client, thread, threads)
                  ELSE [thread |-> thread, threads |-> threads, ret |-> thread]
        IN
        /\ thread' = ct.thread
        /\ threads' = ct.threads
        /\ IF client = None
           THEN Returns(s, Raise("'NoneType' object has no attribute 'agents'"),
                        NoRun, 0, None, NoListing, NoCalls)
           ELSE IF ct.thread = None
           THEN Returns(s, Raise("'NoneType' object has no attribute 'id'"),
                        NoRun, 0, None, NoListing, NoCalls)
           ELSE \E at \in env.times \cup {None} :
                LET sent == [NoCalls EXCEPT !.msg_thread = ct.thread] IN
                IF at = None
                THEN Returns(s, Raise("create_message failed"),
                             NoRun, 0, None, NoListing, NoCalls)
                ELSE IF agent = None
                THEN Returns(s, Raise("'NoneType' object has no attribute 'id'"),
                             NoRun, 0, at, NoListing, sent)
                ELSE \E r \in env.runs \cup {NoRun} :
                     IF r = NoRun
                     THEN Returns(s, Raise("create_run failed"),
                                  NoRun, 0, at, NoListing, sent)
                     ELSE Continue(s, r, 0, at,
                                   [sent EXCEPT !.create_run = 1, !.run_thread = ct.thread])
    /\ UNCHANGED <<client, agent, clients, init_result, user_session, cfg, env>>

\* send_message, lines 291-324: wake from the sleep, count, fetch the run,
\* test the loop again
poll(s) ==
    /\ pc[s] = "sleeping"
    /\ LET wt == wait_time[s] + 1 IN
       IF client = None
       THEN Returns(s, Raise("'NoneType' object has no attribute 'agents'"),
                    run[s], wt, message_obj[s], NoListing, calls[s])
       ELSE IF thread = None
       THEN Returns(s, Raise("'NoneType' object has no attribute 'id'"),
                    run[s], wt, message_obj[s], NoListing, calls[s])
       ELSE \E r \in FetchRuns(wt) \cup {NoRun} :
            LET cs == [calls[s] EXCEPT !.get_run = @ + 1] IN
            IF r = NoRun
            THEN Returns(s, Raise("get_run failed"), run[s], wt, message_obj[s], NoListing, cs)
            ELSE Continue(s, r, wt, message_obj[s], cs)
    /\ UNCHANGED <<init_result, user_session, cfg, env>>
    /\ UNCHANGED agent_vars

\* main(), lines 417-423: the cl.Step has exited; the Assistant message with
\* the response is sent and main() returns (its locals are gone)
main_send(s) ==
    /\ pc[s] = "returned"
    /\ reply' = [reply EXCEPT ![s] = response[s]]
    /\ pc' = [pc EXCEPT ![s] = "ready"]
    /\ run' = [run EXCEPT ![s] = NoRun]
    /\ wait_time' = [wait_time EXCEPT ![s] = 0]
    /\ message_obj' = [message_obj EXCEPT ![s] = None]
    /\ messages' = [messages EXCEPT ![s] = NoListing]
    /\ response' = [response EXCEPT ![s] = NoReply]
    /\ calls' = [calls EXCEPT ![s] = NoCalls]
    /\ UNCHANGED <<init_result, user_session, cfg, env>>
    /\ UNCHANGED agent_vars

\* end(): logs that the chat session ended; the session's own flow takes no
\* further message
end(s) ==
    /\ pc[s] = "ready" /\ env.owner[s] = s
    /\ pc' = [pc EXCEPT ![s] = "ended"]
    /\ run' = [run EXCEPT ![s] = NoRun]
    /\ wait_time' = [wait_time EXCEPT ![s] = 0]
    /\ message_obj' = [message_obj EXCEPT ![s] = None]
    /\ messages' = [messages EXCEPT ![s] = NoListing]
    /\ response' = [response EXCEPT ![s] = NoReply]
    /\ calls' = [calls EXCEPT ![s] = NoCalls]
    /\ UNCHANGED <<init_result, user_session, reply, cfg, env>>
    /\ UNCHANGED agent_vars

StartInitialize == \E s \in env.sessions : start_initialize(s)
StartFinish == \E s \in env.sessions : start_finish(s)
Main == \E s \in env.sessions : main(s)
SendMessage == \E s \in env.sessions : send_message(s)
Poll == \E s \in env.sessions : poll(s)
MainSend == \E s \in env.sessions : main_send(s)
End == \E s \in env.sessions : end(s)

Next == StartInitialize \/ StartFinish \/ Main \/ SendMessage \/ Poll \/ MainSend \/ End

\* ---------------------------------------------------------- specifications
\* the configuration with a connection string and no AGENT_ID
ListedAgentConfig == [mode |-> "connection_string", agent_id |-> FALSE]

\* every flow is its own chat session
OwnFlow == [s \in AllSessions |-> s]
\* every flow carries messages of chat session 1
SameSession == [s \in AllSessions |-> 1]

\* one session, every run the service can report, no limit on how long a run
\* stays unfinished
Spec ==
    InitWith([sessions |-> {1}, settle |-> max_wait_time + 1, lists |-> PollMsgs,
              runs |-> Runs, times |-> {SentAt}, configs |-> {ListedAgentConfig},
              owner |-> OwnFlow])
    /\ [][Next]_vars

\* the event loop resumes every coroutine that is ready to run; the length of
\* a call does not depend on the message lists, which are left empty here
FairSpec ==
    /\ InitWith([sessions |-> {1}, settle |-> max_wait_time + 1, lists |-> 0,
                 runs |-> Runs, times |-> {SentAt}, configs |-> {ListedAgentConfig},
              owner |-> OwnFlow])
    /\ [][Next]_vars
    /\ \A s \in AllSessions : WF_vars(send_message(s)) /\ WF_vars(poll(s))

\* one session, runs that settle early, longer message lists
ListSpec ==
    InitWith([sessions |-> {1}, settle |-> Settle, lists |-> MaxMsgs,
              runs |-> Runs, times |-> Times, configs |-> {ListedAgentConfig},
              owner |-> OwnFlow])
    /\ [][Next]_vars

\* several sessions interleaved under every configuration, runs that settle
\* early, empty message lists
SessRuns == {r \in Runs : r.status \in {"in_progress", "completed"}}
SessSpec ==
    InitWith([sessions |-> AllSessions, settle |-> Settle, lists |-> 0,
              runs |-> SessRuns, times |-> {SentAt}, configs |-> Configs, owner |-> OwnFlow])
    /\ [][Next]_vars

\* one session whose messages arrive while its handlers are suspended: the
\* calls of one session interleaved, runs that settle early, empty lists
TwinSpec ==
    InitWith([sessions |-> AllSessions, settle |-> Settle, lists |-> 0,
              runs |-> Runs, times |-> {SentAt}, configs |-> {ListedAgentConfig},
              owner |-> SameSession])
    /\ [][Next]_vars

\* ------------------------------------------------------------ properties
\* the call of flow s created its run and has returned its reply to main()
Answered(s) == pc[s] = "returned" /\ calls[s].create_run = 1

\* the last status fetch of the call returned a run (run[s] is what it returned)
LastFetchReturned(s) == calls[s].raised # "get_run failed"

\* C1: a run that is still queued or in_progress at every status fetch, the
\* 60th included, is answered with the "taking longer than expected" text
C1_StillRunningAtBudgetTakesLonger ==
    \A s \in AllSessions :
        (/\ Answered(s) /\ LastFetchReturned(s)
         /\ calls[s].get_run = max_wait_time
         /\ run[s].status \in {"queued", "in_progress"})
        => response[s] = TakingLonger

C1_Witness ==
    \E s \in AllSessions :
        /\ Answered(s) /\ LastFetchReturned(s)
        /\ calls[s].get_run = max_wait_time /\ wait_time[s] = max_wait_time
        /\ run[s].status = "in_progress"
        /\ response[s] = TakingLonger

\* the error message a failed run carries, "" when it carries none
CarriedMessage(le) ==
    IF le.tag = "dict" THEN DictGet(le.items, "message", "") ELSE ""

\* C2: when polling ends with status 'failed', the reply contains the run's
\* error message, or "Unknown error" when the run carries none (last_error
\* absent, None, empty, or without a 'message' entry)
C2_FailedReplyCarriesMessageOrUnknown ==
    \A s \in AllSessions :
        (Answered(s) /\ LastFetchReturned(s) /\ run[s].status = "failed")
        => LET m == CarriedMessage(run[s].last_error) IN
           IF m = PyNone THEN TRUE
           ELSE IF m # "" THEN Contains(response[s], Chars(m))
           ELSE Contains(response[s], Chars("Unknown error"))

\* the assistant messages of a list created after the user message
AfterUser(data, at) ==
    {i \in 1..Len(data) : data[i].role = "assistant" /\ data[i].created_at > at}

\* C3: when polling ends with status 'completed', whatever list the transport
\* returns, the reply is the content of the latest-created assistant message
\* among those created after the user message, and the "didn't generate a
\* response" text when there is none
C3_CompletedReplyIsLatestAssistant ==
    \A s \in AllSessions :
        (/\ Answered(s) /\ run[s].status = "completed" /\ messages[s].ok
         /\ \A i \in 1..Len(messages[s].data) : Len(messages[s].data[i].content) > 0)
        => LET data == messages[s].data
               cand == AfterUser(data, message_obj[s])
           IN  IF cand = {} THEN response[s] = NoResponse
               ELSE \E i \in cand :
                       /\ \A j \in cand : data[j].created_at <= data[i].created_at
                       /\ response[s] = <<data[i].content[1]>>

\* C4 as claimed: while the attempt counter is below the maximum, a call that
\* has observed 'requires_action' goes on to sleep and fetch again
C4_RequiresActionIsAwaited ==
    \A s \in AllSessions :
        (/\ run[s].status = "requires_action" /\ LastFetchReturned(s)
         /\ wait_time[s] < max_wait_time)
        => pc[s] = "sleeping"

\* C4 amended: 'requires_action' ends the polling loop: once it is observed
\* (at run creation or at a status fetch) the call neither sleeps nor fetches
\* again and answers "I'm currently requires_action. Please try again in a
\* moment." (the "taking longer" text when it was the 60th fetch)
C4_RequiresActionEndsPolling ==
    \A s \in AllSessions :
        (run[s].status = "requires_action" /\ LastFetchReturned(s))
        => /\ pc[s] = "returned"
           /\ response[s] = IF wait_time[s] >= max_wait_time
                         THEN TakingLonger
                         ELSE CurrentlyText("requires_action")

C4_Witness ==
    \E s \in AllSessions :
        /\ run[s].status = "requires_action" /\ LastFetchReturned(s)
        /\ calls[s].get_run = 1 /\ wait_time[s] = 1
        /\ pc[s] = "returned"
        /\ response[s] = CurrentlyText("requires_action")

\* C5: no fault leaves send_message: whatever step raised (no thread after
\* create_thread, create_message, create_run, get_run, list_messages, the
\* content of the reply), main() gets the "I encountered an error: ..." text
C5_FaultsBecomeErrorReplies ==
    \A s \in AllSessions :
        /\ pc[s] # "crashed"
        /\ (pc[s] = "returned" /\ calls[s].raised # "")
           => response[s] = ErrorText(calls[s].raised)

C5_Witness ==
    \E s \in AllSessions :
        /\ pc[s] = "returned"
        /\ calls[s].raised = "get_run failed" /\ calls[s].get_run = 2
        /\ response[s] = ErrorText("get_run failed")

\* C6: every message a session sends is appended to, and run on, the thread
\* created for that session
C6_MessagesGoToOwnThread ==
    \A s \in AllSessions :
        (calls[s].msg_thread # None /\ Session(s).thread_id # None)
        => /\ calls[s].msg_thread = Session(s).thread_id
           /\ calls[s].run_thread \in {None, Session(s).thread_id}

\* C7: a session whose initialized flag is true has a thread
C7_InitializedHasThread ==
    \A s \in AllSessions :
        user_session[s].initialized = "True"
        => (user_session[s].thread_id # None \/ thread # None)

\* C8: when initialize() returns False, none of client, agent and thread is set
C8_FailedInitializeLeavesNothing ==
    [][\A s \in AllSessions :
         (pc[s] = "new" /\ pc'[s] = "starting" /\ ~init_result'[s])
         => (client' = None /\ agent' = None /\ thread' = None)]_vars

\* C9: when the budget is exhausted and the last fetched status is neither
\* 'completed' nor 'failed', the reply is the "taking longer" or the "I'm
\* currently <status>" text, never an "I encountered an error" text
C9_OtherStatusAtBudgetIsNotAnError ==
    \A s \in AllSessions :
        (/\ Answered(s) /\ LastFetchReturned(s)
         /\ wait_time[s] >= max_wait_time
         /\ run[s].status \notin {"completed", "failed"})
        => /\ response[s] \in {TakingLonger, CurrentlyText(run[s].status)}
           /\ ~Contains(response[s], Chars("I encountered an error"))

C9_Witness ==
    \E s \in AllSessions :
        /\ Answered(s) /\ LastFetchReturned(s)
        /\ wait_time[s] = max_wait_time
        /\ run[s].status = "cancelled"
        /\ response[s] = TakingLonger

\* C10, the counts: at most 60 fetches, one sleep before each, one run
C10_Counts ==
    \A s \in AllSessions :
        /\ calls[s].get_run <= 60
        /\ calls[s].sleep = calls[s].get_run + (IF pc[s] = "sleeping" THEN 1 ELSE 0)
        /\ calls[s].create_run <= 1
        /\ (pc[s] = "sleeping" \/ calls[s].get_run > 0) => calls[s].create_run = 1

\* C10, the steps: a fetch is made only while the status in hand is awaited,
\* one at a time
C10_FetchOnlyWhileAwaited ==
    \A s \in AllSessions :
        calls'[s].get_run > calls[s].get_run
        => /\ calls'[s].get_run = calls[s].get_run + 1
           /\ run[s].status \in {"queued", "in_progress"}

\* C10: every send_message call returns, after at most 60 status fetches, each
\* after exactly one sleep, having created exactly one run, and it fetches no
\* more once a fetched status is outside the awaited set
C10_CallTerminatesWithinBudget ==
    /\ []C10_Counts
    /\ [][C10_FetchOnlyWhileAwaited]_vars
    /\ \A s \in AllSessions : (pc[s] \in {"entered", "sleeping"}) ~> (pc[s] = "returned")

C10_Witness ==
    \E s \in AllSessions :
        /\ pc[s] = "returned"
        /\ calls[s].create_run = 1 /\ calls[s].get_run = 60 /\ calls[s].sleep = 60
        /\ run[s].status = "queued"


\* the session passes both checks of main(): the flag is set and an agent is stored
Connected(s) == Session(s).initialized = "True" /\ Session(s).azure_agent

\* C11, the state: a session that is not connected has no call under way and
\* has appended no message and created no run
C11_NotConnectedHasNoCall ==
    \A s \in AllSessions :
        ~Connected(s)
        => /\ pc[s] \notin {"entered", "sleeping", "returned"}
           /\ calls[s] = NoCalls /\ run[s] = NoRun

\* C11, the step: the answer to a message at a session that is not connected
\* is a restart notice, and the step creates no thread, appends no message and
\* creates no run
C11_NoticeChangesNothingRemote ==
    \A s \in AllSessions :
        (~Connected(s) /\ reply'[s] # reply[s])
        => /\ reply'[s] \in {RestartNotice, AgentNotFound}
           /\ UNCHANGED <<client, agent, thread, clients, threads>>
           /\ UNCHANGED <<pc, run, wait_time, message_obj, messages, response, calls>>

\* C11: a message that arrives at a session that is not connected (flag false
\* or unset, or no stored agent) is answered with a restart notice and leaves
\* the remote state as it was: no thread, no message and no run is created
C11_NotConnectedMessageOnlyNotifies ==
    /\ []C11_NotConnectedHasNoCall
    /\ [][C11_NoticeChangesNothingRemote]_vars

C11_Witness ==
    \E s \in AllSessions :
        /\ user_session[s].initialized = "False" /\ pc[s] = "ready"
        /\ reply[s] = RestartNotice
        /\ client # None /\ threads = 0
        /\ calls[s] = NoCalls

====
